---- MODULE Spec2Model ----
(***************************************************************************)
(* CaseMaker: the case-geometry construction of scad.py (ScadCase) and the *)
(* driver casemaker.py.                                                    *)
(*                                                                         *)
(* Lengths are fixed-point integers: one unit is 0.025 mm, so 1 mm is 40   *)
(* units and every length the source writes (7.1, 3.5, 1.6, 0.05, 1.40,    *)
(* ...) is an even number of units.  Points used to probe a solid have odd *)
(* coordinates, so a probe never lies on a face of an axis-aligned box.    *)
(***************************************************************************)
EXTENDS Integers, Sequences, FiniteSets, TLC

\* n millimetres in units
MM(n) == 40 * n

Min(a, b) == IF a <= b THEN a ELSE b

Max(a, b) == IF a >= b THEN a ELSE b

\* Python's x/2.0 on a length that is an even number of units
Half(v) == IF v >= 0 THEN v \div 2 ELSE -((-v) \div 2)

\* What numpy stores when a float is assigned into an element of the integer
\* array np.array([0,0]): the value truncated toward zero to a whole number
\* (of millimetres).
np_int_assign(v) == IF v >= 0 THEN (v \div 40) * 40 ELSE -(((-v) \div 40) * 40)

(***************************************************************************)
(* Rectangle (imported class): bounds[0] is the low corner, bounds[1] the  *)
(* high corner.                                                            *)
(***************************************************************************)
Rectangle(lox, loy, hix, hiy) == [lo |-> <<lox, loy>>, hi |-> <<hix, hiy>>]

low(r, axis) == r.lo[axis + 1]

high(r, axis) == r.hi[axis + 1]

left(r) == r.lo[1]

right(r) == r.hi[1]

bot(r) == r.lo[2]

top(r) == r.hi[2]

width(r) == r.hi[1] - r.lo[1]

height_of(r) == r.hi[2] - r.lo[2]

area(r) == width(r) * height_of(r)

pad(r, amount) ==
  [lo |-> <<r.lo[1] - amount, r.lo[2] - amount>>,
   hi |-> <<r.hi[1] + amount, r.hi[2] + amount>>]

move(r, delta) ==
  [lo |-> <<r.lo[1] + delta[1], r.lo[2] + delta[2]>>,
   hi |-> <<r.hi[1] + delta[1], r.hi[2] + delta[2]>>]

Rectangle_union(a, b) ==
  [lo |-> <<Min(a.lo[1], b.lo[1]), Min(a.lo[2], b.lo[2])>>,
   hi |-> <<Max(a.hi[1], b.hi[1]), Max(a.hi[2], b.hi[2])>>]

encloses(a, b) ==
  \A i \in 1..2 : a.lo[i] <= b.lo[i] /\ b.hi[i] <= a.hi[i]

(***************************************************************************)
(* The solid-geometry backend (solid, imported as sc): a CSG tree.         *)
(***************************************************************************)
sc_cube(size) == [op |-> "cube", v |-> size, children |-> <<>>]

\* v = <<h, r, segments>>
sc_cylinder(h, r, segments) == [op |-> "cylinder", v |-> <<h, r, segments>>, children |-> <<>>]

sc_translate(v, child) == [op |-> "translate", v |-> v, children |-> <<child>>]

sc_scale(v, child) == [op |-> "scale", v |-> v, children |-> <<child>>]

sc_rotate(a, child) == [op |-> "rotate", v |-> a, children |-> <<child>>]

sc_union(a, b) == [op |-> "union", v |-> <<0, 0, 0>>, children |-> <<a, b>>]

sc_union3(a, b, c) == [op |-> "union", v |-> <<0, 0, 0>>, children |-> <<a, b, c>>]

\* a - b
sc_difference(a, b) == [op |-> "difference", v |-> <<0, 0, 0>>, children |-> <<a, b>>]

\* a * b
sc_intersection(a, b) == [op |-> "intersection", v |-> <<0, 0, 0>>, children |-> <<a, b>>]

\* no solid (a file not written yet)
NoSolid == [op |-> "none", v |-> <<0, 0, 0>>, children |-> <<>>]

(***************************************************************************)
(* Point membership: whether point p = <<x, y, z>> lies in the solid the   *)
(* tree denotes.  A transform node maps p back into its child's frame:     *)
(* scale by components of +1/-1 is its own inverse, and rotate([0,90,0])   *)
(* sends (x, y, z) to (z, y, -x), so its inverse sends p to                *)
(* (-p.z, p.y, p.x).  A cylinder with 40 segments is the regular 40-gon    *)
(* inscribed in the circle of radius r; membership is decided by the       *)
(* circle, which agrees with the polygon except in the sliver between      *)
(* them.                                                                   *)
(***************************************************************************)
RECURSIVE Contains(_, _)
Contains(s, p) ==
  CASE s.op = "difference" ->
         Contains(s.children[1], p) /\ ~Contains(s.children[2], p)
    [] s.op = "translate" ->
         Contains(s.children[1], <<p[1] - s.v[1], p[2] - s.v[2], p[3] - s.v[3]>>)
    [] s.op = "cube" ->
         /\ 0 <= p[1] /\ p[1] <= s.v[1]
         /\ 0 <= p[2] /\ p[2] <= s.v[2]
         /\ 0 <= p[3] /\ p[3] <= s.v[3]
    [] s.op = "cylinder" ->
         /\ 0 <= p[3] /\ p[3] <= s.v[1]
         /\ p[1] * p[1] + p[2] * p[2] <= s.v[2] * s.v[2]
    [] s.op = "union" ->
         \E i \in 1..Len(s.children) : Contains(s.children[i], p)
    [] s.op = "rotate" ->
         Contains(s.children[1], <<-p[3], p[2], p[1]>>)
    [] s.op = "intersection" ->
         Contains(s.children[2], p) /\ Contains(s.children[1], p)
    [] s.op = "scale" ->
         Contains(s.children[1], <<p[1] * s.v[1], p[2] * s.v[2], p[3] * s.v[3]>>)
    [] OTHER -> FALSE

(***************************************************************************)
(* scad.py                                                                 *)
(***************************************************************************)
rect2scad(rect, height, z_start, mirrored) ==
  LET scad_cube == sc_translate(<<left(rect), bot(rect), z_start>>,
                                sc_cube(<<width(rect), height_of(rect), height>>))
  IN  IF mirrored THEN sc_scale(<<1, 1, -1>>, scad_cube) ELSE scad_cube


\* ScadCase.__init__ defaults
default_board_thickness == 64

default_thickness_z == 160

default_thickness_sides == 284

\* self._board_slot = 3.5
board_slot == 140

\* self._min_screw_material = 1.0
min_screw_material == 40

\* self._round_segments = 40
round_segments == 40

\* The attributes __init__ sets on self (the accumulator self._case is the
\* variable _case).
init_self(board_bbox, space_top, space_bot, board_thickness, thickness_z, thickness_sides) ==
  [space_top       |-> space_top,
   space_bot       |-> space_bot,
   thickness_xy    |-> thickness_sides,
   thickness_z     |-> thickness_z,
   board_slot      |-> board_slot,
   board_thickness |-> board_thickness,
   board_bbox      |-> pad(board_bbox, -board_slot),
   min_screw_material |-> min_screw_material,
   round_segments  |-> round_segments]

cavity_height(self) == self.space_top + self.space_bot + self.board_thickness

cavity_top(self) == self.board_thickness + self.space_top

cavity_bot(self) == self.space_bot

height(self) == cavity_height(self) + self.thickness_z * 2

\* __init__: the inner empty cavity
init_inner(self) ==
  rect2scad(self.board_bbox, cavity_height(self), -self.space_bot, FALSE)

init_padded(self) == pad(self.board_bbox, self.thickness_xy)

init_total_height(self) == cavity_height(self) + self.thickness_z * 2

\* Mutant of init_outer: the outer block starts at the cavity's floor
init_outer_from_cavity_floor(self) ==
  rect2scad(init_padded(self), init_total_height(self), -self.space_bot, FALSE)

init_outer(self) ==
  rect2scad(init_padded(self), init_total_height(self),
            -(self.space_bot + self.thickness_z), FALSE)

init_slot(self) == pad(self.board_bbox, self.board_slot)

\* The two assertions of __init__, in order; "none" when both pass.
init_error(self) ==
  IF ~(self.board_slot < self.thickness_xy) THEN "AssertionError"
  ELSE IF ~(area(init_slot(self)) < area(init_padded(self))) THEN "AssertionError"
  ELSE "none"

\* self._case when __init__ returns
init_case(self) ==
  sc_difference(sc_difference(init_outer(self), init_inner(self)),
                rect2scad(init_slot(self), cavity_top(self) + 2, 0, FALSE))

\* Mutant of cut_top_prism: the prism stops at the cavity's top
cut_top_prism_to_cavity_top(self, rect) ==
  rect2scad(rect, cavity_top(self), 0, FALSE)

\* The prism cut_top subtracts
cut_top_prism(self, rect) ==
  rect2scad(rect, cavity_height(self) + self.thickness_z * 2, 0, FALSE)

cut_top(self, c, rect) == sc_difference(c, cut_top_prism(self, rect))

\* Mutant of cut_bot_prism: the prism is not mirrored
cut_bot_prism_unmirrored(self, rect) ==
  rect2scad(rect, cavity_height(self) + self.thickness_z * 2, 0, FALSE)

\* The prism cut_bot subtracts
cut_bot_prism(self, rect) ==
  rect2scad(rect, cavity_height(self) + self.thickness_z * 2, 0, TRUE)

cut_bot(self, c, rect) == sc_difference(c, cut_bot_prism(self, rect))

\* None / a value, as a sequence of length 0 / 1
None == <<>>

Some(x) == <<x>>

\* The union accumulated over one axis of the resolver's loop
cutout_axis(container, rect, thickness, axis, cut) ==
  LET mv(amount) == [i \in 1..2 |-> IF i = axis + 1 THEN np_int_assign(amount) ELSE 0]
      cut1 == IF low(rect, axis) < low(container, axis)
              THEN Rectangle_union(cut, move(rect, mv(-thickness * 2)))
              ELSE cut
      cut2 == IF high(rect, axis) > high(container, axis)
              THEN Rectangle_union(cut1, move(rect, mv(thickness * 2)))
              ELSE cut1
  IN  cut2

\* ScadCase._make_cutout_rect
_make_cutout_rect(self, rect) ==
  IF encloses(self.board_bbox, rect) THEN None
  ELSE Some(cutout_axis(self.board_bbox, rect, self.thickness_xy, 1,
                        cutout_axis(self.board_bbox, rect, self.thickness_xy, 0, rect)))

\* casemaker.make_cutout_rect
make_cutout_rect(container, rect, thickness) ==
  IF encloses(container, rect) THEN None
  ELSE Some(cutout_axis(container, rect, thickness, 1,
                        cutout_axis(container, rect, thickness, 0, rect)))

\* cut_side_top: rect2scad(None, ...) evaluates rect.left() on None
cut_side_top_error(self, rect) ==
  IF _make_cutout_rect(self, rect) = None THEN "AttributeError" ELSE "none"

cut_side_top(self, c, rect) ==
  LET cut == _make_cutout_rect(self, rect)
  IN  sc_difference(c, rect2scad(cut[1], cavity_top(self) - self.board_thickness,
                                 self.board_thickness, FALSE))


(***************************************************************************)
(* ScadCase.save                                                           *)
(***************************************************************************)
screw_head_radius == 120

screw_head_length == 100

screw_shaft_radius == 56

screw_shaft_length == 600

screw_recess_side == 40

screw_recess_top == 0

min_screw_depth == 120

screw_head(self) ==
  sc_translate(<<0, 0, screw_shaft_length>>,
               sc_cylinder(screw_head_length + MM(100), screw_head_radius, self.round_segments))

screw_shaft(self) ==
  sc_cylinder(screw_shaft_length + 4, screw_shaft_radius, self.round_segments)

screw_down(self) ==
  sc_translate(<<0, 0, -screw_shaft_length - screw_head_length>>,
               sc_union(screw_head(self), screw_shaft(self)))

\* Origin is top of screw
screw_side(self) == sc_rotate(<<0, 90, 0>>, screw_down(self))

side_thick(self) == self.thickness_xy - self.board_slot

side_screw_ymin(self) == bot(self.board_bbox) - self.board_slot - Half(side_thick(self))

side_screw_ymax(self) == top(self.board_bbox) + self.board_slot + Half(side_thick(self))

\* Mutant of side_screw_zmin: no minimum material under the head
side_screw_zmin_no_margin(self) ==
  -cavity_bot(self) - self.thickness_z + screw_head_radius

side_screw_zmin(self) ==
  -cavity_bot(self) - self.thickness_z + screw_head_radius + self.min_screw_material

side_screw_zmax(self) == cavity_top(self) - self.thickness_z - screw_head_radius

side_screw_x(self) == right(self.board_bbox) + self.thickness_xy + MM(1)

\* The translations of the four side screws, in the order of the loops
side_screw_positions(self) ==
  << <<side_screw_x(self), side_screw_ymin(self), side_screw_zmin(self)>>,
     <<side_screw_x(self), side_screw_ymin(self), side_screw_zmax(self)>>,
     <<side_screw_x(self), side_screw_ymax(self), side_screw_zmin(self)>>,
     <<side_screw_x(self), side_screw_ymax(self), side_screw_zmax(self)>> >>

top_screw_z(self) ==
  Max(cavity_top(self) + screw_head_length + min_screw_depth,
      cavity_top(self) + self.thickness_z - screw_recess_top)

top_screw_ys(self) ==
  << top(self.board_bbox) + self.board_slot + Half(self.thickness_xy - self.board_slot),
     bot(self.board_bbox) - self.board_slot - Half(self.thickness_xy - self.board_slot) >>

top_screw_xs(self) ==
  << left(self.board_bbox) + screw_head_radius,
     right(self.board_bbox) - screw_shaft_length - MM(1) >>

top_screw_positions(self) ==
  << <<top_screw_xs(self)[1], top_screw_ys(self)[1], top_screw_z(self)>>,
     <<top_screw_xs(self)[2], top_screw_ys(self)[1], top_screw_z(self)>>,
     <<top_screw_xs(self)[1], top_screw_ys(self)[2], top_screw_z(self)>>,
     <<top_screw_xs(self)[2], top_screw_ys(self)[2], top_screw_z(self)>> >>

\* Top area: top of the case
top_area_select(self) ==
  rect2scad(pad(self.board_bbox, self.thickness_xy * 2),
            self.thickness_z + 4, cavity_top(self) - 2, FALSE)

\* main_area is the case without the top or side
main_area_rect(self) ==
  [lo |-> <<self.board_bbox.lo[1] - self.thickness_xy * 2,
            self.board_bbox.lo[2] - self.thickness_xy * 2>>,
   hi |-> <<self.board_bbox.hi[1] - 2,
            self.board_bbox.hi[2] + self.thickness_xy * 2>>]

main_area(self) ==
  rect2scad(main_area_rect(self), height(self) * 2, -height(self) - MM(10), FALSE)

remove_top(self) ==
  rect2scad(pad(self.board_bbox, self.thickness_xy * 2), height(self),
            cavity_top(self) + 2, FALSE)

board_screw_x(self) ==
  left(self.board_bbox) + Half(width(self.board_bbox) + self.board_slot * 2)

board_screw_ys(self) ==
  << bot(self.board_bbox) - screw_shaft_radius - 20,
     top(self.board_bbox) + screw_shaft_radius + 20 >>

board_screw_positions(self) ==
  << <<board_screw_x(self), board_screw_ys(self)[1], screw_head_length>>,
     <<board_screw_x(self), board_screw_ys(self)[2], screw_head_length>> >>

\* self._case -= s, for each s of solids in turn
RECURSIVE subtract_all(_, _)
subtract_all(c, solids) ==
  IF solids = <<>> THEN c
  ELSE subtract_all(sc_difference(c, Head(solids)), Tail(solids))

side_screw_solids(self) ==
  [i \in 1..4 |-> sc_translate(side_screw_positions(self)[i], screw_side(self))]

top_screw_solids(self) ==
  [i \in 1..4 |-> sc_translate(top_screw_positions(self)[i], screw_down(self))]

board_screw_solids(self) ==
  [i \in 1..2 |-> sc_difference(sc_translate(board_screw_positions(self)[i], screw_down(self)),
                                remove_top(self))]

\* Mutant of save_case: the accumulator is narrowed to the main area
save_case_keeps_main_area(self, c) ==
  sc_intersection(subtract_all(c, side_screw_solids(self) \o top_screw_solids(self)
                                  \o board_screw_solids(self)),
                  main_area(self))

\* The assertion of save that fails first, "none" when both pass
save_error(self) ==
  IF ~(screw_recess_side < self.thickness_xy) THEN "AssertionError"
  ELSE IF ~(screw_recess_top < self.thickness_z) THEN "AssertionError"
  ELSE "none"

\* self._case when save returns or raises: the second assertion comes after
\* the side screws are subtracted.
save_case(self, c) ==
  IF ~(screw_recess_side < self.thickness_xy) THEN c
  ELSE IF ~(screw_recess_top < self.thickness_z)
       THEN subtract_all(c, side_screw_solids(self))
  ELSE subtract_all(c, side_screw_solids(self) \o top_screw_solids(self)
                       \o board_screw_solids(self))

\* Separate out the sides of the case; c is self._case with the screws cut
save_side(self, c) ==
  sc_difference(c, sc_union(main_area(self), top_area_select(self)))

save_top(self, c) == sc_intersection(c, top_area_select(self))

\* Mutant of save_main_part: the top area is not subtracted
save_main_part_with_top(self, c) == sc_intersection(c, main_area(self))

save_main_part(self, c) ==
  sc_difference(sc_intersection(c, main_area(self)), top_area_select(self))

save_exploded(self, c) ==
  sc_union3(save_main_part(self, c),
            sc_translate(<<MM(40), 0, 0>>, save_side(self, c)),
            sc_translate(<<0, 0, MM(40)>>, save_top(self, c)))

\* The files save writes: top.<file>, main.<file>, side.<file>, exploded.<file>
\* (<file> itself holds self._case)
save_files(self, c) ==
  [top |-> save_top(self, c), main |-> save_main_part(self, c),
   side |-> save_side(self, c), exploded |-> save_exploded(self, c)]

NoFiles == [top |-> NoSolid, main |-> NoSolid, side |-> NoSolid, exploded |-> NoSolid]


(***************************************************************************)
(* casemaker.py                                                            *)
(***************************************************************************)
\* top = 15.0
casemaker_top == 600

\* bottom = 15.0
casemaker_bottom == 600

\* The gspec loop.  An option named front-standoff-height or
\* back-standoff-height evaluates option.attr["value"]; an lxml element has
\* attrib and get() but no attribute attr, so the evaluation raises before
\* anything is assigned.  Any other option is skipped.
gspec_error(doc) ==
  IF doc = None THEN "none"
  ELSE IF \E i \in 1..Len(doc[1]) :
            doc[1][i].name \in {"front-standoff-height", "back-standoff-height"}
       THEN "AttributeError"
  ELSE "none"

(***************************************************************************)
(* Bounds and inputs                                                       *)
(***************************************************************************)
MaxCuts == 2

MaxSaves == 2

\* board bounding boxes: 50 x 30 mm, and 6 x 30 mm (narrower than two slots)
Boards == {Rectangle(0, 0, MM(50), MM(30)), Rectangle(0, 0, MM(6), MM(30))}

SpaceTops == {600, 400}

SpaceBots == {200}

BoardThicknesses == {64}

ThicknessZs == {160, 80}

ThicknessSides == {284, 140}

\* cutouts: one inside the 50 x 30 board's cavity, one whose right edge is
\* 2 mm past the cavity's right edge
InsideRect == Rectangle(MM(10), MM(10), MM(20), MM(20))

ProtrudingRect == Rectangle(MM(40), MM(10), 1940, MM(20))

\* the tFaceplate and bFaceplate bounding boxes, and the side cuts
FaceplateRects == {InsideRect}

SideCutRects == {InsideRect, ProtrudingRect}

CutRects == FaceplateRects \cup SideCutRects

Option(name, value) == [name |-> name, value |-> value]

\* args.gspec: None, or the options of the document
Gspecs ==
  {None, Some(<<Option("other", 40)>>),
   Some(<<Option("front-standoff-height", 400)>>),
   Some(<<Option("back-standoff-height", 200)>>),
   Some(<<Option("front-standoff-height", 400), Option("back-standoff-height", 200)>>)}

\* inputs of the cutout resolver
ResolverContainers == {Rectangle(140, 140, 1860, 1060)}

ResolverThicknesses == {284, 320}

ResolverCoords == {100, 136, 140, 400, 1860, 1864, 1900}

ResolverRects ==
  {r \in [lo : ResolverCoords \X {136, 140, 400}, hi : ResolverCoords \X {400, 1060, 1064}] :
     r.lo[1] < r.hi[1] /\ r.lo[2] < r.hi[2]}

(***************************************************************************)
(* State                                                                   *)
(***************************************************************************)
VARIABLES
  pc,          \* "start", "parsed", "open", "sealed", "raised", "resolver"
  gspec,       \* args.gspec
  gspec_done,  \* the gspec handling of casemaker.py has run
  board_box,   \* the board's bounding box
  self,        \* the ScadCase's attributes
  _case,        \* self._case
  files,       \* the files the last save wrote
  err,         \* the exception raised, "none" if none
  last,        \* the last ScadCase operation called and its argument
  ncuts,       \* cut operations called
  nsaves,      \* saves completed
  rin,         \* cutout resolver: container, rect, thickness
  rout,        \* cutout resolver: the result
  rfn          \* cutout resolver: the function applied

vars == <<pc, gspec, gspec_done, board_box, self, _case, files, err, last, ncuts,
          nsaves, rin, rout, rfn>>

NoRect == Rectangle(0, 0, 0, 0)

NoSelf == [init_self(NoRect, 0, 0, 0, 0, 0) EXCEPT !.board_bbox = NoRect]

Call(op, rect) == [op |-> op, rect |-> rect]

case_vars == <<pc, gspec, gspec_done, board_box, self, _case, files, err, last, ncuts, nsaves>>

Init ==
  /\ pc = "start"
  /\ gspec = None
  /\ gspec_done = FALSE
  /\ board_box \in Boards
  /\ self = NoSelf
  /\ _case = NoSolid
  /\ files = NoFiles
  /\ err = "none"
  /\ last = Call("none", NoRect)
  /\ ncuts = 0
  /\ nsaves = 0
  /\ rin = [container |-> NoRect, rect |-> NoRect, thickness |-> 0]
  /\ rout = None
  /\ rfn = "none"

\* casemaker.py, lines 60-69
ParseGspec(doc) ==
  /\ pc = "start"
  /\ gspec' = doc
  /\ gspec_done' = TRUE
  /\ err' = gspec_error(doc)
  /\ pc' = IF gspec_error(doc) = "none" THEN "parsed" ELSE "raised"
  /\ UNCHANGED <<board_box, self, _case, files, last, ncuts, nsaves, rin, rout, rfn>>

\* ScadCase.__init__
construct(s) ==
  /\ self' = s
  /\ err' = init_error(s)
  /\ pc' = IF init_error(s) = "none" THEN "open" ELSE "raised"
  /\ _case' = IF init_error(s) = "none" THEN init_case(s) ELSE NoSolid
  /\ last' = Call("__init__", board_box)
  /\ UNCHANGED <<gspec, gspec_done, board_box, files, ncuts, nsaves, rin, rout, rfn>>

\* casemaker.py, line 71: case = scad.ScadCase(board_box, top, bottom)
MainConstruct ==
  /\ pc = "parsed"
  /\ construct(init_self(board_box, casemaker_top, casemaker_bottom,
                         default_board_thickness, default_thickness_z,
                         default_thickness_sides))

\* ScadCase(board_bbox, space_top, space_bot, board_thickness, thickness_z,
\* thickness_sides) called directly
Construct(st, sb, bt, tz, ts) ==
  /\ pc = "start"
  /\ construct(init_self(board_box, st, sb, bt, tz, ts))

CutTop(rect) ==
  /\ pc = "open"
  /\ ncuts < MaxCuts
  /\ _case' = cut_top(self, _case, rect)
  /\ last' = Call("cut_top", rect)
  /\ ncuts' = ncuts + 1
  /\ UNCHANGED <<pc, gspec, gspec_done, board_box, self, files, err, nsaves, rin, rout, rfn>>

CutBot(rect) ==
  /\ pc = "open"
  /\ ncuts < MaxCuts
  /\ _case' = cut_bot(self, _case, rect)
  /\ last' = Call("cut_bot", rect)
  /\ ncuts' = ncuts + 1
  /\ UNCHANGED <<pc, gspec, gspec_done, board_box, self, files, err, nsaves, rin, rout, rfn>>

CutSideTop(rect) ==
  /\ pc = "open"
  /\ ncuts < MaxCuts
  /\ err' = cut_side_top_error(self, rect)
  /\ IF cut_side_top_error(self, rect) = "none"
     THEN _case' = cut_side_top(self, _case, rect) /\ pc' = pc
     ELSE _case' = _case /\ pc' = "raised"
  /\ last' = Call("cut_side_top", rect)
  /\ ncuts' = ncuts + 1
  /\ UNCHANGED <<gspec, gspec_done, board_box, self, files, nsaves, rin, rout, rfn>>

Save ==
  /\ pc \in {"open", "sealed"}
  /\ nsaves < MaxSaves
  /\ err' = save_error(self)
  /\ _case' = save_case(self, _case)
  /\ IF save_error(self) = "none"
     THEN /\ files' = save_files(self, save_case(self, _case))
          /\ pc' = "sealed"
          /\ nsaves' = nsaves + 1
     ELSE /\ files' = files
          /\ pc' = "raised"
          /\ nsaves' = nsaves
  /\ last' = Call("save", NoRect)
  /\ UNCHANGED <<gspec, gspec_done, board_box, self, ncuts, rin, rout, rfn>>

Next ==
  \/ \E doc \in Gspecs : ParseGspec(doc)
  \/ MainConstruct
  \/ \E st \in SpaceTops, sb \in SpaceBots, bt \in BoardThicknesses,
        tz \in ThicknessZs, ts \in ThicknessSides : Construct(st, sb, bt, tz, ts)
  \/ \E rect \in FaceplateRects : CutTop(rect)
  \/ \E rect \in FaceplateRects : CutBot(rect)
  \/ \E rect \in SideCutRects : CutSideTop(rect)
  \/ Save

Spec == Init /\ [][Next]_vars

(***************************************************************************)
(* The cutout resolver as a pure function: Init draws its inputs, the      *)
(* actions apply casemaker.make_cutout_rect and                            *)
(* ScadCase._make_cutout_rect to them.                                     *)
(***************************************************************************)
InitResolver ==
  /\ pc = "resolver"
  /\ gspec = None
  /\ gspec_done = FALSE
  /\ board_box = NoRect
  /\ self = NoSelf
  /\ _case = NoSolid
  /\ files = NoFiles
  /\ err = "none"
  /\ last = Call("none", NoRect)
  /\ ncuts = 0
  /\ nsaves = 0
  /\ rin \in [container : ResolverContainers, rect : ResolverRects,
              thickness : ResolverThicknesses]
  /\ rout = None
  /\ rfn = "none"

ApplyMakeCutoutRect ==
  /\ pc = "resolver"
  /\ rfn = "none"
  /\ rout' = make_cutout_rect(rin.container, rin.rect, rin.thickness)
  /\ rfn' = "casemaker.make_cutout_rect"
  /\ UNCHANGED <<rin>>
  /\ UNCHANGED case_vars

ApplyScadMakeCutoutRect ==
  /\ pc = "resolver"
  /\ rfn = "none"
  /\ rout' = _make_cutout_rect(
               [NoSelf EXCEPT !.board_bbox = rin.container, !.thickness_xy = rin.thickness],
               rin.rect)
  /\ rfn' = "ScadCase._make_cutout_rect"
  /\ UNCHANGED <<rin>>
  /\ UNCHANGED case_vars

NextResolver == ApplyMakeCutoutRect \/ ApplyScadMakeCutoutRect

SpecResolver == InitResolver /\ [][NextResolver]_vars


(***************************************************************************)
(* Probes: the points at which solids are compared.  Each coordinate is    *)
(* one unit (0.025 mm) to one side of a face of the case, of a selector or *)
(* of a cutout, or of a screw axis.                                        *)
(***************************************************************************)
ProbeXs(s) ==
  {left(s.board_bbox) - s.board_slot - 1,
   right(s.board_bbox) - 1,
   right(s.board_bbox) + s.board_slot + 1}
  \cup {r.lo[1] + 1 : r \in FaceplateRects}

ProbeYs(s) ==
  {side_screw_ymin(s) + 1} \cup {r.lo[2] + 1 : r \in CutRects}

ProbeZs(s) ==
  {-s.space_bot - 1, side_screw_zmin(s) + 1, 1,
   s.board_thickness + s.space_top - 1,
   s.board_thickness + s.space_top + 3,
   s.board_thickness + s.space_top + s.thickness_z + 1}

Probes(s) == ProbeXs(s) \X ProbeYs(s) \X ProbeZs(s)

\* p lies over (or under) the footprint of rect
InFootprint(rect, p) ==
  /\ rect.lo[1] < p[1] /\ p[1] < rect.hi[1]
  /\ rect.lo[2] < p[2] /\ p[2] < rect.hi[2]

\* z within the top wall: cavity_top .. cavity_top + thickness_z
InTopWallZ(s, z) ==
  /\ s.board_thickness + s.space_top < z
  /\ z < s.board_thickness + s.space_top + s.thickness_z

\* z within the bottom wall: -(space_bot + thickness_z) .. -space_bot
InBottomWallZ(s, z) ==
  /\ -(s.space_bot + s.thickness_z) < z
  /\ z < -s.space_bot

Constructed == pc \in {"open", "sealed"}

\* The solids subtracted from the accumulator, oldest first
RECURSIVE subtracted(_)
subtracted(c) ==
  IF c.op = "difference"
  THEN Append(subtracted(c.children[1]), c.children[2])
  ELSE <<>>

\* The innermost difference of the accumulator: outer - inner
RECURSIVE innermost(_)
innermost(c) ==
  IF c.children[1].op = "difference" THEN innermost(c.children[1]) ELSE c

\* The box a translated cube occupies
BoxOf(n) ==
  [lo |-> n.v,
   hi |-> <<n.v[1] + n.children[1].v[1], n.v[2] + n.children[1].v[2],
            n.v[3] + n.children[1].v[3]>>]


(***************************************************************************)
(* Claims                                                                  *)
(***************************************************************************)

\* C1: for every container, thickness and rectangle rect the container does
\* not enclose, the rectangle the cutout resolver returns encloses rect and,
\* on every side (low or high, either axis) where rect exceeds the container,
\* reaches at least 2*thickness beyond the container's boundary on that side.
C1_CutoutReachesThroughWall ==
  (rfn # "none" /\ ~encloses(rin.container, rin.rect)) =>
    /\ rout # None
    /\ encloses(rout[1], rin.rect)
    /\ \A axis \in {0, 1} :
         /\ low(rin.rect, axis) < low(rin.container, axis)
              => low(rout[1], axis) <= low(rin.container, axis) - 2 * rin.thickness
         /\ high(rin.rect, axis) > high(rin.container, axis)
              => high(rout[1], axis) >= high(rin.container, axis) + 2 * rin.thickness

\* C2: a side cut of a rectangle the cavity footprint encloses completes
\* without raising and leaves the accumulator unchanged.
C2_EnclosedSideCutIsNoOp ==
  [][(ncuts' = ncuts + 1 /\ last'.op = "cut_side_top"
      /\ encloses(self.board_bbox, last'.rect))
     => (err' = "none" /\ pc' = pc /\ _case' = _case)]_vars

\* C3: the three parts save writes cover exactly the case solid at the point
\* of separation and are pairwise disjoint.
C3_PartsPartitionCase ==
  pc = "sealed" =>
    \A p \in Probes(self) :
      LET c == Contains(_case, p)
          m == Contains(files.main, p)
          t == Contains(files.top, p)
          s == Contains(files.side, p)
      IN  /\ c <=> (m \/ t \/ s)
          /\ ~(m /\ t)
          /\ ~(m /\ s)
          /\ ~(t /\ s)

\* C3 witness: a saved case with material in each of the three parts, and
\* case material where the main and top selectors overlap.
C3_Witness ==
  /\ pc = "sealed"
  /\ \E p \in Probes(self) : Contains(files.main, p)
  /\ \E p \in Probes(self) : Contains(files.top, p)
  /\ \E p \in Probes(self) : Contains(files.side, p)
  /\ \E p \in Probes(self) :
       Contains(_case, p) /\ Contains(main_area(self), p) /\ Contains(top_area_select(self), p)


\* p lies in one of the ten screw solids save subtracts
InScrews(s, p) ==
  \/ \E i \in 1..4 : Contains(side_screw_solids(s)[i], p)
  \/ \E i \in 1..4 : Contains(top_screw_solids(s)[i], p)
  \/ \E i \in 1..2 : Contains(board_screw_solids(s)[i], p)

\* C4 as stated: the accumulator after save is the same solid as before save.
C4_SaveLeavesAccumulator ==
  [][nsaves' = nsaves + 1
     => \A p \in Probes(self) : Contains(_case', p) <=> Contains(_case, p)]_vars

\* C4 amended: save changes the accumulator only by subtracting its ten screw
\* solids (the accumulator after save is the solid before save minus the
\* screws; the separation that follows only reads it), and a save that
\* follows a save leaves the solid as it was, so it separates the same solid.
C4_SaveSubtractsOnlyScrews ==
  [][nsaves' = nsaves + 1
     => /\ \A p \in Probes(self) :
             Contains(_case', p) <=> (Contains(_case, p) /\ ~InScrews(self, p))
        /\ nsaves >= 1
             => \A p \in Probes(self) :
                  /\ Contains(_case', p) <=> Contains(_case, p)
                  /\ Contains(files'.top, p) <=> Contains(files.top, p)
                  /\ Contains(files'.main, p) <=> Contains(files.main, p)
                  /\ Contains(files'.side, p) <=> Contains(files.side, p)]_vars

\* C4 witness: after a second save, a point of the constructed case that a
\* screw has removed from the accumulator.
C4_Witness ==
  /\ pc = "sealed"
  /\ nsaves = 2
  /\ \E p \in Probes(self) :
       Contains(init_case(self), p) /\ InScrews(self, p) /\ ~Contains(_case, p)

\* C5 as stated: after cut_top(rect) no case material remains over rect's
\* footprint in the top wall nor in the bottom wall.
C5_CutTopPiercesTopAndBottom ==
  (pc = "open" /\ last.op = "cut_top") =>
    \A p \in Probes(self) :
      (InFootprint(last.rect, p) /\ (InTopWallZ(self, p[3]) \/ InBottomWallZ(self, p[3])))
        => ~Contains(_case, p)

\* C5 amended: cut_top(rect) subtracts a prism over rect's footprint from the
\* board plane z = 0 up to z = cavity_height + 2*thickness_z: afterwards no
\* material remains over the footprint in the top wall, and nothing below
\* z = 0 is removed, so the bottom wall is as it was.
C5_CutTopPiercesTopOnly ==
  [][(ncuts' = ncuts + 1 /\ last'.op = "cut_top")
     => \A p \in Probes(self) :
          /\ (InFootprint(last'.rect, p) /\ InTopWallZ(self, p[3])) => ~Contains(_case', p)
          /\ p[3] < 0 => (Contains(_case', p) <=> Contains(_case, p))]_vars

\* C5 witness: after cut_top(rect), a point of the top wall over rect's
\* footprint that the constructed case held is gone, and a point of the bottom
\* wall under the footprint is still there.
C5_Witness ==
  /\ pc = "open"
  /\ last.op = "cut_top"
  /\ \E p \in Probes(self) :
       /\ InFootprint(last.rect, p) /\ InTopWallZ(self, p[3])
       /\ Contains(init_case(self), p) /\ ~Contains(_case, p)
  /\ \E p \in Probes(self) :
       /\ InFootprint(last.rect, p) /\ InBottomWallZ(self, p[3])
       /\ Contains(_case, p)


Positive(r) == width(r) > 0 /\ height_of(r) > 0

\* C6: once __init__ has run, a construction that completed has
\* board_slot < thickness_xy and cavity, slot and outer footprints of positive
\* width and height; and a slot not narrower than the wall, or a board
\* bounding box no wider or no higher than 2*board_slot, made it raise and
\* produce no case.
C6_EagerValidation ==
  last.op = "__init__" =>
    /\ Constructed =>
         /\ self.board_slot < self.thickness_xy
         /\ Positive(self.board_bbox)
         /\ Positive(init_slot(self))
         /\ Positive(init_padded(self))
    /\ (\/ self.board_slot >= self.thickness_xy
        \/ width(board_box) <= 2 * self.board_slot
        \/ height_of(board_box) <= 2 * self.board_slot)
         => (pc = "raised" /\ _case = NoSolid)

\* C7: once the gspec handling has run, an option front-standoff-height = a
\* (back-standoff-height = b) of the document has raised nothing and gives a
\* case constructed with space_top = a (space_bot = b); without a document
\* nothing is raised and the case is constructed with 15.0 and 15.0.
C7_HeightSpecOverride ==
  gspec_done =>
    /\ last.op = "none" => (pc = "parsed" /\ err = "none")
    /\ (gspec = None /\ last.op = "__init__")
         => (Constructed /\ self.space_top = 600 /\ self.space_bot = 600)
    /\ gspec # None =>
         \A i \in 1..Len(gspec[1]) :
           /\ (gspec[1][i].name = "front-standoff-height" /\ last.op = "__init__")
                => self.space_top = gspec[1][i].value
           /\ (gspec[1][i].name = "back-standoff-height" /\ last.op = "__init__")
                => self.space_bot = gspec[1][i].value

\* C8: in a constructed case the inner cavity spans z from -space_bot to
\* board_thickness + space_top (a height of space_top + space_bot +
\* board_thickness), the outer block spans z from -(space_bot + thickness_z)
\* to board_thickness + space_top + thickness_z (thickness_z of material above
\* and below the cavity, a height of cavity_height + 2*thickness_z), the
\* cavity's footprint is the board box shrunk by board_slot and the outer
\* footprint exceeds it by thickness_xy on all four sides; cavity_height,
\* cavity_top and height are these sums (15/15/1.6/4.0 give 31.6 and 39.6).
C8_DimensionsAndLayout ==
  Constructed =>
    LET inner == BoxOf(innermost(_case).children[2])
        outer == BoxOf(innermost(_case).children[1])
        st == self.space_top
        sb == self.space_bot
        bt == self.board_thickness
        tz == self.thickness_z
        txy == self.thickness_xy
    IN  /\ cavity_height(self) = st + sb + bt
        /\ cavity_top(self) = bt + st
        /\ height(self) = st + sb + bt + 2 * tz
        /\ inner.lo[3] = -sb /\ inner.hi[3] = bt + st
        /\ inner.hi[3] - inner.lo[3] = st + sb + bt
        /\ outer.lo[3] = -(sb + tz) /\ outer.hi[3] = bt + st + tz
        /\ outer.hi[3] - outer.lo[3] = st + sb + bt + 2 * tz
        /\ outer.hi[3] - inner.hi[3] = tz /\ inner.lo[3] - outer.lo[3] = tz
        /\ \A i \in 1..2 :
             /\ inner.lo[i] = board_box.lo[i] + self.board_slot
             /\ inner.hi[i] = board_box.hi[i] - self.board_slot
             /\ outer.lo[i] = inner.lo[i] - txy
             /\ outer.hi[i] = inner.hi[i] + txy
        /\ (st = 600 /\ sb = 600 /\ bt = 64 /\ tz = 160)
             => (cavity_height(self) = 1264 /\ height(self) = 1584)

\* C8 witness: the default case of the 50 x 30 board, and a case of other
\* dimensions whose cuts have been made.
C8_Witness ==
  /\ Constructed
  /\ ncuts = MaxCuts
  /\ self.space_top = 600 /\ self.space_bot = 600 /\ self.thickness_z = 160
  /\ cavity_height(self) = 1264
  /\ height(self) = 1584
  /\ width(board_box) = MM(50)

\* C9: the prism cut_bot(rect) subtracts is the mirror image in z = 0 of the
\* prism cut_top(rect) subtracts (rect's footprint, z from
\* -(cavity_height + 2*thickness_z) to 0); after it no material remains under
\* rect's footprint in the bottom wall, and nothing above z = 0 is removed, so
\* the top wall is as it was.
C9_CutBotMirrorsCutTop ==
  [][(ncuts' = ncuts + 1 /\ last'.op = "cut_bot")
     => LET prism == _case'.children[2]
            rect == last'.rect
            h == self.space_top + self.space_bot + self.board_thickness
                 + 2 * self.thickness_z
        IN  /\ _case'.children[1] = _case
            /\ \A p \in Probes(self) :
                 /\ Contains(prism, p)
                      <=> Contains(cut_top_prism(self, rect), <<p[1], p[2], -p[3]>>)
                 /\ Contains(prism, p) => InFootprint(rect, p)
                 /\ (InFootprint(rect, p) /\ InBottomWallZ(self, p[3]))
                      => ~Contains(_case', p)
                 /\ p[3] > 0 => (Contains(_case', p) <=> Contains(_case, p))
            /\ Contains(prism, <<rect.lo[1] + 1, rect.lo[2] + 1, -h + 1>>)
            /\ ~Contains(prism, <<rect.lo[1] + 1, rect.lo[2] + 1, -h - 1>>)
            /\ Contains(prism, <<rect.hi[1] - 1, rect.hi[2] - 1, -1>>)
            /\ ~Contains(prism, <<rect.hi[1] - 1, rect.hi[2] - 1, 1>>)]_vars

\* C9 witness: after cut_bot(rect), a point of the bottom wall under rect's
\* footprint that the constructed case held is gone, and a point of the top
\* wall over the footprint is still there.
C9_Witness ==
  /\ pc = "open"
  /\ last.op = "cut_bot"
  /\ \E p \in Probes(self) :
       /\ InFootprint(last.rect, p) /\ InBottomWallZ(self, p[3])
       /\ Contains(init_case(self), p) /\ ~Contains(_case, p)
  /\ \E p \in Probes(self) :
       /\ InFootprint(last.rect, p) /\ InTopWallZ(self, p[3])
       /\ Contains(_case, p)

\* The translations of the side screws subtracted from the accumulator
side_screws_in(c) ==
  {subtracted(c)[i].v : i \in {j \in 1..Len(subtracted(c)) :
                                /\ subtracted(c)[j].op = "translate"
                                /\ subtracted(c)[j].children[1].op = "rotate"}}

\* C10 as stated: the side screws sit at two y-extremes crossed with two
\* z-levels, the lower screw_head_radius + min_screw_material above the case's
\* absolute bottom, the upper screw_head_radius + min_screw_material below the
\* case's absolute top.
C10_SideScrewsOffsetFromTopAndBottom ==
  pc = "sealed" =>
    LET zbot == -(self.space_bot + self.thickness_z)
        ztop == self.board_thickness + self.space_top + self.thickness_z
        off == screw_head_radius + self.min_screw_material
    IN  /\ Cardinality(side_screws_in(_case)) = 4
        /\ Cardinality({v[2] : v \in side_screws_in(_case)}) = 2
        /\ {v[3] : v \in side_screws_in(_case)} = {zbot + off, ztop - off}
        /\ \A v \in side_screws_in(_case) :
             /\ v[3] - screw_head_radius >= zbot + self.min_screw_material
             /\ v[3] + screw_head_radius <= ztop - self.min_screw_material

\* C10 amended: the four side screws sit at the two y-extremes crossed with
\* two z-levels; the lower is screw_head_radius + min_screw_material above the
\* case's absolute bottom, so the head disc's lowest point is
\* min_screw_material above the bottom face; the upper is
\* cavity_top - thickness_z - screw_head_radius, that is thickness_z +
\* screw_head_radius below the cavity top, so the head disc's highest point is
\* 2*thickness_z below the top face.
C10_SideScrewLevels ==
  pc = "sealed" =>
    LET zbot == -(self.space_bot + self.thickness_z)
        ztop == self.board_thickness + self.space_top + self.thickness_z
        zlow == zbot + screw_head_radius + self.min_screw_material
        zhigh == self.board_thickness + self.space_top - self.thickness_z
                 - screw_head_radius
        ylow == self.board_bbox.lo[2] - self.board_slot
                - Half(self.thickness_xy - self.board_slot)
        yhigh == self.board_bbox.hi[2] + self.board_slot
                 + Half(self.thickness_xy - self.board_slot)
    IN  /\ Cardinality(side_screws_in(_case)) = 4
        /\ {<<v[2], v[3]>> : v \in side_screws_in(_case)} = {ylow, yhigh} \X {zlow, zhigh}
        /\ zlow - screw_head_radius = zbot + self.min_screw_material
        /\ zhigh + screw_head_radius = ztop - 2 * self.thickness_z

\* C10 witness: a saved default case, whose upper side screws are not
\* screw_head_radius + min_screw_material below the absolute top.
C10_Witness ==
  /\ pc = "sealed"
  /\ self.thickness_z = 160
  /\ Cardinality(side_screws_in(_case)) = 4
  /\ \E v \in side_screws_in(_case) :
       v[3] = self.board_thickness + self.space_top - self.thickness_z - screw_head_radius
  /\ \A v \in side_screws_in(_case) :
       v[3] # self.board_thickness + self.space_top + self.thickness_z
              - screw_head_radius - self.min_screw_material

====
